---------------------------- MODULE Spec2Model ----------------------------
(***************************************************************************)
(* Presence-gate controller of DistanceSensorGate.ino: the exponential     *)
(* smoothing filter, the four-state hysteresis machine, the LED fade and   *)
(* the edge-triggered tones, one action per pass of loop().                *)
(*                                                                         *)
(* Distances are held in fixed point, Scale units per centimetre, and      *)
(* every float operation rounds to the nearest unit.  millis() is an       *)
(* unsigned counter of MillisBits bits.                                    *)
(***************************************************************************)
EXTENDS Integers, Sequences, FiniteSets, TLC

\* ----- bounds of the model -----
Scale      == 4      \* fixed-point units per centimetre
MillisBits == 16     \* width of the millisecond counter in the model
MaxClock   == 1400   \* loop() is not entered once millis() has passed this
MaxMoves   == 2      \* times the object in front of the sensor changes place
MaxFewMoves == 1     \* the same in the runs on 10 ms passes and with a lost echo
MaxStepClock == 2300 \* the same for the passes on sampled inputs
MaxLostClock == 4200 \* the same for the passes after the echo is lost for good
LoseBy     == 1000   \* the object moves no later than this where the run goes on
MaxWideClock == 400  \* horizon in ms of the runs over the whole range of echoes
WrapLead   == 600    \* the object moves no earlier than this before millis() wraps
WrapRun    == 1100   \* ms the run goes on after millis() has wrapped

\* ----- environment: what the sensor and the scheduler can deliver -----
\* echo pulse widths in microseconds; 0 is pulseIn's timeout
\* (the others about 50 and 250 cm)
PulseDurations == {0, 2915, 14577}
\* the whole range of pulseIn: timeout, about 1 cm (under MIN_DISTANCE),
\* 150 cm, and the longest pulse before the timeout (over MAX_DISTANCE)
WideDurations == {0, 58, 8746, 30000}

\* ----- constants of the sketch -----
MIN_DISTANCE          == 2 * Scale
MAX_DISTANCE          == 400 * Scale
GATE_TRIGGER_DISTANCE == 100 * Scale
GATE_TRIGGER_TIME     == 250
GATE_RELEASE_DISTANCE == 200 * Scale
GATE_RELEASE_TIME     == 1000
LED_FADE_STEP         == 5
FRAME_INTERVAL        == 20
LOOP_DELAY            == 10
PULSE_TIMEOUT         == 30000
FREQ_TRIGGERED        == 1000
FREQ_RELEASED         == 500

IDLE       == "IDLE"
TRIGGERING == "TRIGGERING"
TRIGGERED  == "TRIGGERED"
RELEASING  == "RELEASING"
GateState  == {IDLE, TRIGGERING, TRIGGERED, RELEASING}

VARIABLES
    distance,          \* float distance: latest raw reading
    smoothedDistance,  \* float smoothedDistance
    gateState,         \* GateState gateState
    stateStartTime,    \* unsigned long stateStartTime
    ledBrightness,     \* int ledBrightness
    prevGateState,     \* GateState prevGateState
    frameCounter,      \* int frameCounter
    clock,             \* value millis() returned last
    tones,             \* frequencies handed to tone() during the last pass
    ledPin,            \* value last handed to analogWrite(LED_PIN, ..)
    printed,           \* whether the last pass called printDebugInformation
    echo,              \* width of the echo pulse the sensor currently returns
    moves,             \* times echo has changed
    movedAt,           \* millis() of the first pass that read the present echo
    movedIn,           \* gateState that pass found
    sincePrint,        \* passes since the last printDebugInformation (since setup)
    heard,             \* frequencies of the calls of tone() since setup, in order
    quietFor,          \* ms since the latest call of tone(), since the first pass of
                       \* loop() while there has been none (-1 before that pass),
                       \* counted up to GATE_RELEASE_TIME
    wraps,             \* times millis() has wrapped to 0
    startWraps         \* value of wraps when stateStartTime was last written

vars == <<distance, smoothedDistance, gateState, stateStartTime, ledBrightness,
          prevGateState, frameCounter, clock, tones, ledPin, printed, echo, moves,
          movedAt, movedIn, sincePrint, heard, quietFor, wraps,
          startWraps>>

\* ----- helpers -----
Millis == 2 ^ MillisBits

\* division of a non-negative fixed-point numerator, rounded to nearest
RoundDiv(n, d) == (2 * n + d) \div (2 * d)

\* constrain(x, lo, hi) of Arduino.h
constrain(x, lo, hi) == IF x < lo THEN lo ELSE IF x > hi THEN hi ELSE x

\* the subtraction done on signed numbers: negative once millis() has wrapped
ElapsedSinceSigned(now, start) == now - start

\* unsigned subtraction now - stateStartTime
ElapsedSince(now, start) == (now - start + Millis) % Millis

\* milliseconds one pass of loop() takes: pulseIn blocks for the echo (for
\* the whole timeout when there is none), then delay(10)
passMillis(dur) ==
    LOOP_DELAY + (IF dur = 0 THEN PULSE_TIMEOUT ELSE dur) \div 1000

\* readUltrasonic() without the sentinel for a timed-out pulseIn
readUltrasonicNoSentinel(dur) == RoundDiv(dur * 343 * Scale, 20000)

\* readUltrasonic(): dur * 0.0343 / 2.0 cm, MAX_DISTANCE when pulseIn timed out
readUltrasonic(dur) ==
    IF dur = 0 THEN MAX_DISTANCE ELSE RoundDiv(dur * 343 * Scale, 20000)

\* smoothDistance() with the two weights exchanged
smoothDistanceSwapped(newDist, smoothed) == RoundDiv(3 * newDist + smoothed, 4)

\* smoothDistance(): DISTANCE_ALPHA * newDist + (1 - DISTANCE_ALPHA) * smoothed,
\* DISTANCE_ALPHA = 0.25
smoothDistance(newDist, smoothed) == RoundDiv(newDist + 3 * smoothed, 4)

\* updateGateState() without the dwell of TRIGGERING
updateGateStateNoTriggerDwell(state, smoothed, start, now) ==
    CASE state = IDLE ->
           IF smoothed < GATE_TRIGGER_DISTANCE
           THEN [state |-> TRIGGERING, start |-> now]
           ELSE [state |-> IDLE, start |-> start]
      [] state = TRIGGERING ->
           IF smoothed < GATE_TRIGGER_DISTANCE
           THEN [state |-> TRIGGERED, start |-> start]
           ELSE [state |-> IDLE, start |-> start]
      [] state = TRIGGERED ->
           IF smoothed > GATE_RELEASE_DISTANCE
           THEN [state |-> RELEASING, start |-> now]
           ELSE [state |-> TRIGGERED, start |-> start]
      [] state = RELEASING ->
           IF smoothed > GATE_RELEASE_DISTANCE
           THEN IF ElapsedSince(now, start) >= GATE_RELEASE_TIME
                THEN [state |-> IDLE, start |-> start]
                ELSE [state |-> RELEASING, start |-> start]
           ELSE [state |-> TRIGGERED, start |-> start]

\* updateGateState() refreshing stateStartTime on every pass spent in RELEASING
updateGateStateRefreshRelease(state, smoothed, start, now) ==
    CASE state = IDLE ->
           IF smoothed < GATE_TRIGGER_DISTANCE
           THEN [state |-> TRIGGERING, start |-> now]
           ELSE [state |-> IDLE, start |-> start]
      [] state = TRIGGERING ->
           IF smoothed < GATE_TRIGGER_DISTANCE
           THEN IF ElapsedSince(now, start) >= GATE_TRIGGER_TIME
                THEN [state |-> TRIGGERED, start |-> start]
                ELSE [state |-> TRIGGERING, start |-> start]
           ELSE [state |-> IDLE, start |-> start]
      [] state = TRIGGERED ->
           IF smoothed > GATE_RELEASE_DISTANCE
           THEN [state |-> RELEASING, start |-> now]
           ELSE [state |-> TRIGGERED, start |-> start]
      [] state = RELEASING ->
           IF smoothed > GATE_RELEASE_DISTANCE
           THEN IF ElapsedSince(now, start) >= LOOP_DELAY
                THEN [state |-> IDLE, start |-> now]
                ELSE [state |-> RELEASING, start |-> now]
           ELSE [state |-> TRIGGERED, start |-> start]

\* updateGateState() comparing with the wrong strictness
updateGateStateStrict(state, smoothed, start, now) ==
    CASE state = IDLE ->
           IF smoothed <= GATE_TRIGGER_DISTANCE
           THEN [state |-> TRIGGERING, start |-> now]
           ELSE [state |-> IDLE, start |-> start]
      [] state = TRIGGERING ->
           IF smoothed <= GATE_TRIGGER_DISTANCE
           THEN IF ElapsedSince(now, start) > GATE_TRIGGER_TIME
                THEN [state |-> TRIGGERED, start |-> start]
                ELSE [state |-> TRIGGERING, start |-> start]
           ELSE [state |-> IDLE, start |-> start]
      [] state = TRIGGERED ->
           IF smoothed >= GATE_RELEASE_DISTANCE
           THEN [state |-> RELEASING, start |-> now]
           ELSE [state |-> TRIGGERED, start |-> start]
      [] state = RELEASING ->
           IF smoothed >= GATE_RELEASE_DISTANCE
           THEN IF ElapsedSince(now, start) > GATE_RELEASE_TIME
                THEN [state |-> IDLE, start |-> start]
                ELSE [state |-> RELEASING, start |-> start]
           ELSE [state |-> TRIGGERED, start |-> start]

\* updateGateState(): the switch, as [state, start] after the call
updateGateState(state, smoothed, start, now) ==
    CASE state = IDLE ->
           IF smoothed < GATE_TRIGGER_DISTANCE
           THEN [state |-> TRIGGERING, start |-> now]
           ELSE [state |-> IDLE, start |-> start]
      [] state = TRIGGERING ->
           IF smoothed < GATE_TRIGGER_DISTANCE
           THEN IF ElapsedSince(now, start) >= GATE_TRIGGER_TIME
                THEN [state |-> TRIGGERED, start |-> start]
                ELSE [state |-> TRIGGERING, start |-> start]
           ELSE [state |-> IDLE, start |-> start]
      [] state = TRIGGERED ->
           IF smoothed > GATE_RELEASE_DISTANCE
           THEN [state |-> RELEASING, start |-> now]
           ELSE [state |-> TRIGGERED, start |-> start]
      [] state = RELEASING ->
           IF smoothed > GATE_RELEASE_DISTANCE
           THEN IF ElapsedSince(now, start) >= GATE_RELEASE_TIME
                THEN [state |-> IDLE, start |-> start]
                ELSE [state |-> RELEASING, start |-> start]
           ELSE [state |-> TRIGGERED, start |-> start]

\* target of updateLED()
ledTarget(state) == IF state = TRIGGERED \/ state = RELEASING THEN 255 ELSE 0

\* updateLED() without the final constrain
updateLEDNoConstrain(state, brightness) ==
    LET target == ledTarget(state)
        change == IF brightness < target THEN LED_FADE_STEP ELSE -LED_FADE_STEP
    IN  brightness + change

\* updateLED() that only ever fades in
updateLEDNoFadeOut(state, brightness) ==
    LET target == ledTarget(state)
        change == IF brightness < target THEN LED_FADE_STEP ELSE 0
    IN  constrain(brightness + change, 0, 255)

\* updateLED(): the brightness after the call
updateLED(state, brightness) ==
    LET target == ledTarget(state)
        change == IF brightness < target THEN LED_FADE_STEP ELSE -LED_FADE_STEP
    IN  constrain(brightness + change, 0, 255)

\* beepOnGateStateChange() beeping on every arrival in TRIGGERED
beepOnGateStateChangeNoSuppress(state, prev) ==
    IF state = prev THEN <<>>
    ELSE CASE state = TRIGGERED -> <<FREQ_TRIGGERED>>
           [] state = IDLE ->
                IF prev = TRIGGERED \/ prev = RELEASING
                THEN <<FREQ_RELEASED>> ELSE <<>>
           [] OTHER -> <<>>

\* beepOnGateStateChange() with the exit beep only straight from TRIGGERED
beepOnGateStateChangeExitFromTriggered(state, prev) ==
    IF state = prev THEN <<>>
    ELSE CASE state = TRIGGERED ->
                IF prev # RELEASING THEN <<FREQ_TRIGGERED>> ELSE <<>>
           [] state = IDLE ->
                IF prev = TRIGGERED THEN <<FREQ_RELEASED>> ELSE <<>>
           [] OTHER -> <<>>

\* beepOnGateStateChange(): the calls of tone() it makes
beepOnGateStateChange(state, prev) ==
    IF state = prev THEN <<>>
    ELSE CASE state = TRIGGERED ->
                IF prev # RELEASING THEN <<FREQ_TRIGGERED>> ELSE <<>>
           [] state = IDLE ->
                IF prev = TRIGGERED \/ prev = RELEASING
                THEN <<FREQ_RELEASED>> ELSE <<>>
           [] OTHER -> <<>>

\* ----- setup() -----
\* the state setup() leaves, its one reading of an echo of dur being
\* initialReading
setupWith(initialReading, dur) ==
    /\ distance = MAX_DISTANCE
    /\ smoothedDistance = constrain(initialReading, MIN_DISTANCE, MAX_DISTANCE)
    /\ gateState = IDLE
    /\ stateStartTime = 0
    /\ ledBrightness = 0
    /\ prevGateState = IDLE
    /\ frameCounter = 0
    /\ clock = 0
    /\ tones = <<>>
    /\ ledPin = 0
    /\ printed = FALSE
    /\ echo = dur
    /\ moves = 0
    /\ movedAt = 0
    /\ movedIn = IDLE
    /\ sincePrint = 0
    /\ heard = <<>>
    /\ quietFor = -1
    /\ wraps = 0
    /\ startWraps = 0

setup(dur) == setupWith(readUltrasonic(dur), dur)

Init == \E dur \in PulseDurations : setup(dur)

\* ----- what the properties need to know of the passes gone by -----
observe ==
    /\ sincePrint' = (IF printed' THEN 0 ELSE sincePrint + 1)
    /\ heard' = heard \o tones'
    /\ quietFor' = (IF tones' # <<>> \/ quietFor < 0 THEN 0
                    ELSE LET t == quietFor + ElapsedSince(clock', clock)
                         IN  IF t > GATE_RELEASE_TIME THEN GATE_RELEASE_TIME ELSE t)
    /\ wraps' = (IF clock' < clock THEN wraps + 1 ELSE wraps)
    /\ startWraps' = (IF gateState' # gateState /\ gateState' \in {TRIGGERING, RELEASING}
                      THEN wraps' ELSE startWraps)

\* ----- loop() -----
\* the pass from updateGateState() on: the reading raw, the filter's output
\* smoothed and the value now that millis() returns
pass(raw, smoothed, now) ==
    LET fsm == updateGateState(gateState, smoothed, stateStartTime, now)
        led == updateLED(fsm.state, ledBrightness)
        itsTimeToPrint == (fsm.state # gateState) \/ (frameCounter >= FRAME_INTERVAL)
    IN  /\ distance' = raw
        /\ smoothedDistance' = smoothed
        /\ clock' = now
        /\ prevGateState' = gateState
        /\ gateState' = fsm.state
        /\ stateStartTime' = fsm.start
        /\ ledBrightness' = led
        /\ ledPin' = led
        /\ tones' = beepOnGateStateChange(fsm.state, gateState)
        /\ printed' = itsTimeToPrint
        /\ frameCounter' = (IF itsTimeToPrint THEN 0 ELSE frameCounter) + 1
        /\ observe

\* one pass of loop(), the echo lasting dur and millis() advancing by dt
loop(dur, dt) ==
    LET raw == readUltrasonic(dur)
    IN  pass(raw, smoothDistance(raw, smoothedDistance), (clock + dt) % Millis)

\* a pass while the object stays where it is
Hold ==
    /\ clock + passMillis(echo) <= MaxClock
    /\ loop(echo, passMillis(echo))
    /\ UNCHANGED <<echo, moves, movedAt, movedIn>>

\* a pass after the object has moved
Move ==
    \E dur \in PulseDurations \ {echo} :
        /\ moves < MaxMoves
        /\ clock + passMillis(dur) <= MaxClock
        /\ loop(dur, passMillis(dur))
        /\ echo' = dur
        /\ moves' = moves + 1
        /\ movedAt' = clock'
        /\ movedIn' = gateState

Next == Hold \/ Move

Spec == Init /\ [][Next]_vars

\* ----- the same sketch on an ideal schedule: every pass takes delay(10) -----
HoldTen ==
    /\ clock + LOOP_DELAY <= MaxClock
    /\ loop(echo, LOOP_DELAY)
    /\ UNCHANGED <<echo, moves, movedAt, movedIn>>

MoveTen ==
    \E dur \in PulseDurations \ {echo} :
        /\ moves < MaxFewMoves
        /\ clock + LOOP_DELAY <= MaxClock
        /\ loop(dur, LOOP_DELAY)
        /\ echo' = dur
        /\ moves' = moves + 1
        /\ movedAt' = clock'
        /\ movedIn' = gateState

NextTen == HoldTen \/ MoveTen

SpecTen == Init /\ [][NextTen]_vars

\* ----- the sketch running on after the sensor has stopped answering -----
\* a pass while the object stays where it is; with no echo the passes go on
HoldLost ==
    /\ clock + passMillis(echo) <= (IF echo = 0 THEN MaxLostClock ELSE LoseBy)
    /\ loop(echo, passMillis(echo))
    /\ UNCHANGED <<echo, moves, movedAt, movedIn>>

\* a pass after the object has moved
MoveLost ==
    \E dur \in PulseDurations \ {echo} :
        /\ moves < MaxFewMoves
        /\ clock + passMillis(dur) <= LoseBy
        /\ loop(dur, passMillis(dur))
        /\ echo' = dur
        /\ moves' = moves + 1
        /\ movedAt' = clock'
        /\ movedIn' = gateState

NextLost == HoldLost \/ MoveLost

\* loop() is called again and again
SpecLost == Init /\ [][NextLost]_vars /\ WF_vars(HoldLost)

\* ----- updateGateState() on sampled inputs -----
\* filter outputs below, at, between and above the two thresholds
SmoothedSamples ==
    {GATE_TRIGGER_DISTANCE - 1, GATE_TRIGGER_DISTANCE, GATE_TRIGGER_DISTANCE + 1,
     GATE_RELEASE_DISTANCE - 1, GATE_RELEASE_DISTANCE, GATE_RELEASE_DISTANCE + 1}
\* clock advances that, alone or summed, put the elapsed time below, at and
\* above each dwell
MillisSamples ==
    {GATE_TRIGGER_TIME - 1, GATE_TRIGGER_TIME, GATE_RELEASE_TIME - 1, GATE_RELEASE_TIME}

\* a pass whose filter output is s, dt after the last one
Step ==
    \E s \in SmoothedSamples, dt \in MillisSamples :
        /\ clock + dt <= MaxStepClock
        /\ pass(s, s, (clock + dt) % Millis)
        /\ UNCHANGED <<echo, moves, movedAt, movedIn>>

NextStep == Step

SpecStep == Init /\ [][NextStep]_vars

\* ----- the same passes over the whole range of echoes -----
InitWide == \E dur \in WideDurations : setup(dur)

HoldWide ==
    /\ clock + passMillis(echo) <= MaxWideClock
    /\ loop(echo, passMillis(echo))
    /\ UNCHANGED <<echo, moves, movedAt, movedIn>>

MoveWide ==
    \E dur \in WideDurations \ {echo} :
        /\ moves < MaxFewMoves
        /\ clock + passMillis(dur) <= MaxWideClock
        /\ loop(dur, passMillis(dur))
        /\ echo' = dur
        /\ moves' = moves + 1
        /\ movedAt' = clock'
        /\ movedIn' = gateState

NextWide == HoldWide \/ MoveWide

SpecWide == InitWide /\ [][NextWide]_vars

\* ----- the sketch left running until millis() wraps -----
\* nothing changes in front of the sensor until shortly before the wrap
HoldWrap ==
    /\ (wraps = 0 \/ clock + passMillis(echo) <= WrapRun)
    /\ loop(echo, passMillis(echo))
    /\ UNCHANGED <<echo, moves, movedAt, movedIn>>

MoveWrap ==
    \E dur \in PulseDurations \ {echo} :
        /\ moves < MaxFewMoves
        /\ IF wraps = 0 THEN clock >= Millis - WrapLead
                        ELSE clock + passMillis(dur) <= WrapRun
        /\ loop(dur, passMillis(dur))
        /\ echo' = dur
        /\ moves' = moves + 1
        /\ movedAt' = clock'
        /\ movedIn' = gateState

NextWrap == HoldWrap \/ MoveWrap

SpecWrap == Init /\ [][NextWrap]_vars

\* ----- the earlier variant of the sketch (src/unnamed/part_000) -----
\* smoothDistance, updateGateState and beepOnGateStateChange are the same code
\* there; readUltrasonic, updateLED and the printing differ.

\* const int speedOfSound = 0.0343: the initializer is converted to int
speedOfSound == 0

\* readUltrasonic() of the variant: (dur * speedOfSound) / 2.0
readUltrasonic_000(dur) ==
    IF dur = 0 THEN MAX_DISTANCE ELSE RoundDiv(dur * speedOfSound * Scale, 2)

\* updateLED() of the variant: lit in TRIGGERED only, at rest on the target
updateLED_000(state, brightness) ==
    LET target == IF state = TRIGGERED THEN 255 ELSE 0
        stepped == IF brightness < target THEN brightness + LED_FADE_STEP
                   ELSE IF brightness > target THEN brightness - LED_FADE_STEP
                   ELSE brightness
    IN  constrain(stepped, 0, 255)

setup_000(dur) == setupWith(readUltrasonic_000(dur), dur)

Init_000 == \E dur \in PulseDurations : setup_000(dur)

\* one pass of the variant's loop(); it prints on every pass and has no
\* frameCounter
loop_000(dur, dt) ==
    LET raw == readUltrasonic_000(dur)
        smoothed == smoothDistance(raw, smoothedDistance)
        now == (clock + dt) % Millis
        fsm == updateGateState(gateState, smoothed, stateStartTime, now)
        led == updateLED_000(fsm.state, ledBrightness)
    IN  /\ distance' = raw
        /\ smoothedDistance' = smoothed
        /\ clock' = now
        /\ prevGateState' = gateState
        /\ gateState' = fsm.state
        /\ stateStartTime' = fsm.start
        /\ ledBrightness' = led
        /\ ledPin' = led
        /\ tones' = beepOnGateStateChange(fsm.state, gateState)
        /\ printed' = TRUE
        /\ UNCHANGED frameCounter
        /\ observe

Hold_000 ==
    /\ clock + passMillis(echo) <= MaxClock
    /\ loop_000(echo, passMillis(echo))
    /\ UNCHANGED <<echo, moves, movedAt, movedIn>>

Move_000 ==
    \E dur \in PulseDurations \ {echo} :
        /\ moves < MaxFewMoves
        /\ clock + passMillis(dur) <= MaxClock
        /\ loop_000(dur, passMillis(dur))
        /\ echo' = dur
        /\ moves' = moves + 1
        /\ movedAt' = clock'
        /\ movedIn' = gateState

Next_000 == Hold_000 \/ Move_000

Spec_000 == Init_000 /\ [][Next_000]_vars

\* ----- properties -----

\* what one pass may do on the way into TRIGGERED
C1_Step ==
    /\ gateState' = TRIGGERED /\ gateState # TRIGGERED =>
          /\ gateState \in {TRIGGERING, RELEASING}
          /\ gateState = TRIGGERING =>
                /\ smoothedDistance' < GATE_TRIGGER_DISTANCE
                /\ clock' - stateStartTime >= GATE_TRIGGER_TIME
                /\ stateStartTime' = stateStartTime
    /\ gateState = IDLE /\ gateState' # IDLE =>
          /\ gateState' = TRIGGERING
          /\ stateStartTime' = clock'
    /\ gateState = TRIGGERING /\ gateState' = TRIGGERING =>
          /\ smoothedDistance' < GATE_TRIGGER_DISTANCE
          /\ stateStartTime' = stateStartTime
    /\ gateState = TRIGGERING /\ smoothedDistance' >= GATE_TRIGGER_DISTANCE =>
          gateState' = IDLE
    /\ gateState' = TRIGGERING => gateState \in {IDLE, TRIGGERING}

\* C1: TRIGGERED is entered only from TRIGGERING, on a pass whose smoothed
\* distance is below GATE_TRIGGER_DISTANCE and at least GATE_TRIGGER_TIME after
\* the pass that left IDLE: stateStartTime is set to that pass's millis() and
\* kept while TRIGGERING lasts, every pass in between had the smoothed
\* distance below the threshold, and a pass that finds it at or above the
\* threshold returns to IDLE.
C1_TriggerDwell == [][C1_Step]_vars
C1_Witness ==
    /\ prevGateState = TRIGGERING
    /\ gateState = TRIGGERED
    /\ clock - stateStartTime >= GATE_TRIGGER_TIME
\* a dip shorter than the dwell, back in IDLE
C1_DipSeen ==
    /\ prevGateState = TRIGGERING
    /\ gateState = IDLE
    /\ clock - stateStartTime < GATE_TRIGGER_TIME

\* what one pass may do on the way back to IDLE
C2_Step ==
    /\ gateState' = IDLE /\ gateState # IDLE =>
          /\ gateState \in {TRIGGERING, RELEASING}
          /\ gateState = RELEASING =>
                /\ smoothedDistance' > GATE_RELEASE_DISTANCE
                /\ clock' - stateStartTime >= GATE_RELEASE_TIME
                /\ stateStartTime' = stateStartTime
    /\ gateState = TRIGGERED /\ gateState' # TRIGGERED =>
          /\ gateState' = RELEASING
          /\ stateStartTime' = clock'
    /\ gateState = RELEASING /\ gateState' = RELEASING =>
          /\ smoothedDistance' > GATE_RELEASE_DISTANCE
          /\ stateStartTime' = stateStartTime
    /\ gateState = RELEASING /\ smoothedDistance' <= GATE_RELEASE_DISTANCE =>
          gateState' = TRIGGERED
    /\ gateState' = RELEASING => gateState \in {TRIGGERED, RELEASING}

\* C2: IDLE is entered only from RELEASING (or TRIGGERING), from RELEASING on a
\* pass whose smoothed distance is above GATE_RELEASE_DISTANCE and at least
\* GATE_RELEASE_TIME after the latest pass that left TRIGGERED for RELEASING;
\* stateStartTime is kept while RELEASING lasts, a pass that finds the
\* smoothed distance at or below the threshold returns to TRIGGERED, and
\* the next release sets stateStartTime anew.
C2_ReleaseDwell == [][C2_Step]_vars
C2_Witness ==
    /\ prevGateState = RELEASING
    /\ gateState = IDLE
    /\ clock - stateStartTime >= GATE_RELEASE_TIME
\* a release cut short, back in TRIGGERED
C2_RiseSeen ==
    /\ prevGateState = RELEASING
    /\ gateState = TRIGGERED
    /\ clock - stateStartTime < GATE_RELEASE_TIME

\* the ten rows of the transition table
TransitionTable(state, smoothed, elapsed) ==
    CASE state = IDLE /\ smoothed < GATE_TRIGGER_DISTANCE -> TRIGGERING
      [] state = IDLE /\ ~(smoothed < GATE_TRIGGER_DISTANCE) -> IDLE
      [] state = TRIGGERING /\ smoothed < GATE_TRIGGER_DISTANCE
                            /\ elapsed >= GATE_TRIGGER_TIME -> TRIGGERED
      [] state = TRIGGERING /\ smoothed < GATE_TRIGGER_DISTANCE
                            /\ elapsed < GATE_TRIGGER_TIME -> TRIGGERING
      [] state = TRIGGERING /\ smoothed >= GATE_TRIGGER_DISTANCE -> IDLE
      [] state = TRIGGERED /\ smoothed > GATE_RELEASE_DISTANCE -> RELEASING
      [] state = TRIGGERED /\ ~(smoothed > GATE_RELEASE_DISTANCE) -> TRIGGERED
      [] state = RELEASING /\ smoothed > GATE_RELEASE_DISTANCE
                           /\ elapsed >= GATE_RELEASE_TIME -> IDLE
      [] state = RELEASING /\ smoothed > GATE_RELEASE_DISTANCE
                           /\ elapsed < GATE_RELEASE_TIME -> RELEASING
      [] state = RELEASING /\ smoothed <= GATE_RELEASE_DISTANCE -> TRIGGERED

\* C3: the machine starts in IDLE and every pass takes gateState to the next
\* state of the transition table, for the smoothed distance and the millis()
\* of that pass.
C3_Table ==
    /\ gateState = IDLE
    /\ [][gateState' =
            TransitionTable(gateState, smoothedDistance', clock' - stateStartTime)]_vars
C3_Witness ==
    /\ prevGateState = TRIGGERING
    /\ gateState = TRIGGERED
    /\ smoothedDistance = GATE_TRIGGER_DISTANCE - 1
    /\ clock - stateStartTime = GATE_TRIGGER_TIME

\* the beeps of one pass against the edge it made
C4_Step ==
    /\ Len(tones') <= 1
    /\ tones' = <<FREQ_TRIGGERED>> <=>
          (gateState' = TRIGGERED /\ gateState \notin {TRIGGERED, RELEASING})
    /\ tones' = <<FREQ_TRIGGERED>> <=>
          (gateState = TRIGGERING /\ gateState' = TRIGGERED)
    /\ tones' = <<FREQ_RELEASED>> <=>
          (gateState' = IDLE /\ gateState \in {TRIGGERED, RELEASING})
    /\ tones' = <<>> <=>
          ~ \/ (gateState' = TRIGGERED /\ gateState \notin {TRIGGERED, RELEASING})
            \/ (gateState' = IDLE /\ gateState \in {TRIGGERED, RELEASING})

\* C4: a pass calls tone() at most once: with the enter frequency exactly when
\* it took gateState to TRIGGERED from a state other than RELEASING (which is
\* exactly a TRIGGERING -> TRIGGERED pass), with the exit frequency exactly when
\* it took gateState to IDLE from TRIGGERED or RELEASING, and not at all otherwise.
C4_TonesOnEdges == [][C4_Step]_vars
\* a return from RELEASING to TRIGGERED, silent
C4_Witness ==
    /\ prevGateState = RELEASING
    /\ gateState = TRIGGERED
    /\ tones = <<>>
C4_EnterSeen == tones = <<FREQ_TRIGGERED>>
C4_ExitSeen == tones = <<FREQ_RELEASED>>

Abs(x) == IF x < 0 THEN -x ELSE x

\* C5: a pass never moves ledBrightness away from the target of that pass
\* (255 when the state after updateGateState is TRIGGERED or RELEASING, else
\* 0), so a brightness that has reached the target stays on it while the
\* target stays.
C5_TowardTarget ==
    [][Abs(ledBrightness' - ledTarget(gateState'))
           <= Abs(ledBrightness - ledTarget(gateState'))]_vars

\* passes the gate has spent in TRIGGERED since it entered it, on 10 ms passes
LitPasses == (clock - stateStartTime - GATE_TRIGGER_TIME) \div LOOP_DELAY + 1
\* ceil(255 / LED_FADE_STEP)
FadeInPasses == (255 + LED_FADE_STEP - 1) \div LED_FADE_STEP

\* the gate held in TRIGGERED since it first got there, still fading in
C6_Held ==
    moves = 0 /\ gateState = TRIGGERED /\ LitPasses <= FadeInPasses

\* C6: ledBrightness stays within 0..255; a pass whose target is 255 raises a
\* brightness below 255 by exactly LED_FADE_STEP, never past 255; and with the
\* gate held in TRIGGERED from brightness 0 the brightness is LED_FADE_STEP
\* times the number of passes so far, 255 on pass 51.
C6_FadeIn ==
    /\ [](ledBrightness \in 0..255)
    /\ [](C6_Held => ledBrightness = LED_FADE_STEP * LitPasses)
    /\ [][ledTarget(gateState') = 255 /\ ledBrightness < 255 =>
            /\ ledBrightness' = ledBrightness + LED_FADE_STEP
            /\ ledBrightness' <= 255]_vars
C6_Witness ==
    /\ C6_Held
    /\ LitPasses = 51
    /\ ledBrightness = 255

\* the gate at rest, the light out
C7_Rest == gateState = IDLE /\ ledBrightness = 0

\* C7: when from some pass on every reading is the timeout sentinel, the
\* gate ends in IDLE with the light out for good; and a pass reading the
\* sentinel keeps the gate at rest once it is there with the smoothed
\* distance not below GATE_TRIGGER_DISTANCE.
C7_LostEchoSettles ==
    /\ <>[](echo = 0) => <>[]C7_Rest
    /\ [][C7_Rest /\ smoothedDistance >= GATE_TRIGGER_DISTANCE /\ echo' = 0 =>
            C7_Rest' /\ smoothedDistance' >= GATE_TRIGGER_DISTANCE]_vars
C7_Witness ==
    /\ echo = 0
    /\ movedIn \in {TRIGGERED, RELEASING}
    /\ C7_Rest
    /\ prevGateState = IDLE

\* one pass whose pulseIn timed out
C8_Step ==
    echo' = 0 =>
        /\ distance' = MAX_DISTANCE
        /\ ~(gateState = IDLE /\ gateState' = TRIGGERING)
        /\ ~(gateState = TRIGGERING /\ gateState' = TRIGGERED)
        /\ ~(gateState = RELEASING /\ gateState' = TRIGGERED)
        /\ tones' # <<FREQ_TRIGGERED>>

\* C8: a pass whose pulseIn timed out reads the sentinel MAX_DISTANCE and
\* makes none of the transitions IDLE -> TRIGGERING, TRIGGERING -> TRIGGERED
\* and RELEASING -> TRIGGERED, and no enter beep.
C8_TimeoutNeverTriggers == [][C8_Step]_vars
C8_Witness ==
    /\ echo = 0
    /\ distance = MAX_DISTANCE
    /\ prevGateState = TRIGGERING
    /\ gateState = IDLE

\* one 10 ms pass with the smoothed distance below the trigger threshold
C9_Step ==
    /\ clock' = clock + LOOP_DELAY
    /\ gateState = IDLE /\ smoothedDistance' < GATE_TRIGGER_DISTANCE =>
          /\ gateState' = TRIGGERING
          /\ stateStartTime' = clock'
          /\ tones' = <<>>
    /\ gateState = TRIGGERING /\ smoothedDistance' < GATE_TRIGGER_DISTANCE =>
          IF clock' - stateStartTime < GATE_TRIGGER_TIME
          THEN /\ gateState' = TRIGGERING
               /\ stateStartTime' = stateStartTime
               /\ tones' = <<>>
          ELSE /\ gateState' = TRIGGERED
               /\ clock' - stateStartTime = 25 * LOOP_DELAY
               /\ tones' = <<FREQ_TRIGGERED>>

\* C9: on 10 ms passes, a pass that finds the gate in IDLE and the smoothed
\* distance below GATE_TRIGGER_DISTANCE goes to TRIGGERING; while the smoothed
\* distance stays below, the gate stays in TRIGGERING, silent, until the
\* first pass at least GATE_TRIGGER_TIME later, which is the 25th, goes to
\* TRIGGERED and makes the one enter beep.
C9_HeldCloseTriggers == [][C9_Step]_vars
C9_Witness ==
    /\ prevGateState = TRIGGERING
    /\ gateState = TRIGGERED
    /\ clock - stateStartTime = GATE_TRIGGER_TIME
    /\ tones = <<FREQ_TRIGGERED>>

\* the object went to 250 cm while the gate was TRIGGERED and is still there
C10_Held ==
    /\ moves > 0
    /\ distance = 250 * Scale
    /\ movedIn = TRIGGERED

\* C10: on 10 ms passes, from the first reading of 250 cm that finds the gate
\* in TRIGGERED, the gate goes TRIGGERED -> RELEASING -> IDLE and never back,
\* is in IDLE 1100 ms later, and the only beep is the exit beep of the pass
\* that enters IDLE.
C10_ReleaseScenario ==
    C10_Held =>
        /\ <<prevGateState, gateState>> \in
              {<<TRIGGERED, TRIGGERED>>, <<TRIGGERED, RELEASING>>,
               <<RELEASING, RELEASING>>, <<RELEASING, IDLE>>, <<IDLE, IDLE>>}
        /\ clock - movedAt >= 1100 => gateState = IDLE
        /\ tones = (IF prevGateState = RELEASING /\ gateState = IDLE
                    THEN <<FREQ_RELEASED>> ELSE <<>>)
C10_Witness ==
    /\ C10_Held
    /\ prevGateState = RELEASING
    /\ gateState = IDLE
    /\ tones = <<FREQ_RELEASED>>
    /\ clock - movedAt <= 1100

\* C11: printDebugInformation runs on a pass exactly when the gate state changed
\* on that pass or FRAME_INTERVAL passes have gone by since the last report
\* (since setup for the first report), so reports are never further apart
\* than FRAME_INTERVAL passes.
C11_Step ==
    /\ printed' <=> (gateState' # gateState \/ sincePrint + 1 >= FRAME_INTERVAL)
    /\ sincePrint' < FRAME_INTERVAL
C11_ReportEveryInterval == [][C11_Step]_vars

\* C12: the gate activates (TRIGGERING -> TRIGGERED) only if the raw distance
\* of every pass has been within GATE_TRIGGER_DISTANCE for at least
\* GATE_TRIGGER_TIME up to the activation.  WideDurations has one echo within
\* GATE_TRIGGER_DISTANCE, so the raw distance has been the present one since
\* movedAt and was beyond it on the pass before.
C12_RawWithinBeforeActivation ==
    (prevGateState = TRIGGERING /\ gateState = TRIGGERED)
        => /\ distance < GATE_TRIGGER_DISTANCE
           /\ ElapsedSince(clock, movedAt) >= GATE_TRIGGER_TIME

\* milliseconds that have really gone by, at the end of the pass being taken,
\* since stateStartTime was written
TrueElapsed == (wraps' - startWraps) * Millis + clock' - stateStartTime

\* C13: the dwell tests are immune to the wrap of millis(): TRIGGERING turns
\* TRIGGERED, and RELEASING turns IDLE, exactly when the time that has really
\* gone by since the state was entered has reached the dwell, also when
\* millis() wrapped to 0 in between.
C13_Step ==
    /\ (gateState = TRIGGERING /\ smoothedDistance' < GATE_TRIGGER_DISTANCE)
          => /\ TrueElapsed < Millis
             /\ gateState' = TRIGGERED <=> TrueElapsed >= GATE_TRIGGER_TIME
    /\ (gateState = RELEASING /\ smoothedDistance' > GATE_RELEASE_DISTANCE)
          => /\ TrueElapsed < Millis
             /\ gateState' = IDLE <=> TrueElapsed >= GATE_RELEASE_TIME
C13_WrapImmune == [][C13_Step]_vars

\* a dwell that began before the wrap is fulfilled after it
C13_Witness ==
    /\ prevGateState = TRIGGERING
    /\ gateState = TRIGGERED
    /\ clock < stateStartTime

C13_ReleaseAcrossWrap ==
    /\ prevGateState = RELEASING
    /\ gateState = IDLE
    /\ clock < stateStartTime

\* C14: every raw distance that loop() hands to smoothDistance lies within
\* [MIN_DISTANCE, MAX_DISTANCE], whatever pulse width pulseIn reports
\* (0 for the timeout, otherwise 1 to 30000 microseconds).
C14_Step == distance' >= MIN_DISTANCE /\ distance' <= MAX_DISTANCE
C14_RawWithinRange == [][C14_Step]_vars

\* readings under MIN_DISTANCE and over MAX_DISTANCE both reach the filter
C14_UnderSeen == clock > 0 /\ echo = 58 /\ distance < MIN_DISTANCE
C14_OverSeen == clock > 0 /\ echo = PULSE_TIMEOUT /\ distance > MAX_DISTANCE

\* C15 as stated: the output of smoothDistance lies between the previous
\* output and the raw distance v of the pass, and |smoothedDistance - v| is
\* multiplied by 1 - DISTANCE_ALPHA = 3/4 on the pass, never growing and never
\* changing sides.
C15_ExactStep ==
    LET v == distance'
        gap == Abs(smoothedDistance - v)
        gapAfter == Abs(smoothedDistance' - v)
    IN  /\ (smoothedDistance <= smoothedDistance' /\ smoothedDistance' <= v)
           \/ (v <= smoothedDistance' /\ smoothedDistance' <= smoothedDistance)
        /\ 4 * gapAfter = 3 * gap
        /\ gapAfter <= gap
        /\ (smoothedDistance - v) * (smoothedDistance' - v) >= 0
C15_Step ==
    LET v == distance'
        gap == Abs(smoothedDistance - v)
        gapAfter == Abs(smoothedDistance' - v)
    IN  /\ (smoothedDistance <= smoothedDistance' /\ smoothedDistance' <= v)
           \/ (v <= smoothedDistance' /\ smoothedDistance' <= smoothedDistance)
        /\ Abs(4 * gapAfter - 3 * gap) <= 2
        /\ gapAfter <= gap
        /\ (smoothedDistance - v) * (smoothedDistance' - v) >= 0
        /\ gap > 2 => gapAfter < gap
C16_Step ==
    /\ distance' = MAX_DISTANCE <=> echo' = 0
    /\ echo' # 0 =>
          /\ distance' > 0
          /\ \A dur \in PulseDurations \ {0} :
                dur < echo' => readUltrasonic_000(dur) < distance'
C16_DistanceOfEcho == [][C16_Step]_vars

\* the same of the present sketch
C16_PresentStep ==
    /\ distance' = MAX_DISTANCE <=> echo' = 0
    /\ echo' # 0 =>
          /\ distance' > 0
          /\ \A dur \in PulseDurations \ {0} :
                dur < echo' => readUltrasonic(dur) < distance'
C16_PresentDistanceOfEcho == [][C16_PresentStep]_vars

\* C17: stateStartTime is written only on the passes that take IDLE to
\* TRIGGERING or TRIGGERED to RELEASING, where it becomes the millis() of that
\* pass; every other pass leaves it as it was.
C17_Step ==
    IF \/ (gateState = IDLE /\ gateState' = TRIGGERING)
       \/ (gateState = TRIGGERED /\ gateState' = RELEASING)
    THEN stateStartTime' = clock'
    ELSE stateStartTime' = stateStartTime
C17_StartWrittenOnEntry == [][C17_Step]_vars

\* RELEASING has been left for TRIGGERED and the time stamp is still the one
\* of the entry into RELEASING
C17_Witness ==
    /\ prevGateState = RELEASING
    /\ gateState = TRIGGERED
    /\ stateStartTime > 0
    /\ stateStartTime < clock

\* the dwell timer is not refreshed while TRIGGERING lasts
C17_KeptSeen ==
    /\ prevGateState = TRIGGERING
    /\ gateState = TRIGGERING
    /\ stateStartTime < clock

InBand(smoothed) ==
    GATE_TRIGGER_DISTANCE <= smoothed /\ smoothed <= GATE_RELEASE_DISTANCE

\* C18: on every pass whose smoothed distance lies in the band
\* [GATE_TRIGGER_DISTANCE, GATE_RELEASE_DISTANCE] the state afterwards is IDLE
\* or TRIGGERED (both are kept, TRIGGERING falls back to IDLE, RELEASING to
\* TRIGGERED) and no tone is made; so while the smoothed distance stays in the
\* band the state changes at most once, on the first such pass.
C18_Step ==
    InBand(smoothedDistance') =>
        /\ gateState' = (IF gateState \in {IDLE, TRIGGERING} THEN IDLE ELSE TRIGGERED)
        /\ tones' = <<>>
        /\ InBand(smoothedDistance) => gateState' = gateState
C18_BandIsQuiet == [][C18_Step]_vars

\* RELEASING has fallen back to TRIGGERED on the edge of the band, silently
C18_Witness ==
    /\ prevGateState = RELEASING
    /\ gateState = TRIGGERED
    /\ smoothedDistance = GATE_RELEASE_DISTANCE
    /\ tones = <<>>

C18_FallBackToIdleSeen ==
    /\ prevGateState = TRIGGERING
    /\ gateState = IDLE
    /\ smoothedDistance = GATE_TRIGGER_DISTANCE
    /\ tones = <<>>

\* C19: at the end of every pass the gate state agrees with the smoothed
\* distance of that pass: IDLE implies smoothed >= GATE_TRIGGER_DISTANCE,
\* TRIGGERING smoothed < GATE_TRIGGER_DISTANCE, TRIGGERED
\* smoothed <= GATE_RELEASE_DISTANCE, RELEASING smoothed > GATE_RELEASE_DISTANCE.
C19_Step ==
    /\ gateState' = IDLE => smoothedDistance' >= GATE_TRIGGER_DISTANCE
    /\ gateState' = TRIGGERING => smoothedDistance' < GATE_TRIGGER_DISTANCE
    /\ gateState' = TRIGGERED => smoothedDistance' <= GATE_RELEASE_DISTANCE
    /\ gateState' = RELEASING => smoothedDistance' > GATE_RELEASE_DISTANCE
C19_StateAgreesWithDistance == [][C19_Step]_vars

\* TRIGGERED is held exactly on GATE_RELEASE_DISTANCE
C19_Witness ==
    /\ prevGateState = TRIGGERED
    /\ gateState = TRIGGERED
    /\ smoothedDistance = GATE_RELEASE_DISTANCE

\* before the first pass the state need not agree: IDLE with a near seed
C19_SeedSeen == gateState = IDLE /\ smoothedDistance < GATE_TRIGGER_DISTANCE

Lit == gateState \in {TRIGGERED, RELEASING}

\* C20: over any run from setup the enter tone (FREQ_TRIGGERED) and the exit
\* tone (FREQ_RELEASED) alternate and the first tone is an enter tone, and at
\* the end of every pass the state is TRIGGERED or RELEASING exactly when the
\* latest tone was the enter tone.
C20_TonesAlternate ==
    /\ \A i \in 1..Len(heard) :
          heard[i] = (IF i % 2 = 1 THEN FREQ_TRIGGERED ELSE FREQ_RELEASED)
    /\ Lit <=> (heard # <<>> /\ heard[Len(heard)] = FREQ_TRIGGERED)

\* the gate has been entered, left, and entered again
C20_Witness ==
    /\ heard = <<FREQ_TRIGGERED, FREQ_RELEASED, FREQ_TRIGGERED>>
    /\ tones = <<FREQ_TRIGGERED>>
    /\ gateState = TRIGGERED

\* back in TRIGGERED from RELEASING without a second enter tone
C20_SilentReturnSeen ==
    /\ prevGateState = RELEASING
    /\ gateState = TRIGGERED
    /\ tones = <<>>
    /\ heard = <<FREQ_TRIGGERED>>

\* C21: with millis() not wrapping, a tone comes no sooner after the tone
\* before it than the dwell it ends: the exit tone at least GATE_RELEASE_TIME
\* ms after the enter tone before it, the enter tone at least
\* GATE_TRIGGER_TIME ms after the exit tone before it, and the first enter
\* tone at least GATE_TRIGGER_TIME ms after the first pass of loop().
C21_Step ==
    /\ tones' = <<FREQ_RELEASED>> =>
          /\ heard # <<>>
          /\ heard[Len(heard)] = FREQ_TRIGGERED
          /\ quietFor + (clock' - clock) >= GATE_RELEASE_TIME
    /\ tones' = <<FREQ_TRIGGERED>> =>
          /\ quietFor >= 0
          /\ quietFor + (clock' - clock) >= GATE_TRIGGER_TIME
C21_TonesApart == [][C21_Step]_vars

\* the first enter tone exactly GATE_TRIGGER_TIME ms after the first pass,
\* the exit tone after it, and the second enter tone after that
C21_Witness ==
    /\ heard = <<FREQ_TRIGGERED, FREQ_RELEASED, FREQ_TRIGGERED>>
    /\ tones = <<FREQ_TRIGGERED>>
    /\ quietFor = 0
    /\ clock - stateStartTime = GATE_TRIGGER_TIME

C21_FirstEnterSeen ==
    /\ heard = <<FREQ_TRIGGERED>>
    /\ tones = <<FREQ_TRIGGERED>>
    /\ stateStartTime = 249
    /\ clock = 249 + GATE_TRIGGER_TIME

C21_ExitSeen ==
    /\ heard = <<FREQ_TRIGGERED, FREQ_RELEASED>>
    /\ tones = <<FREQ_RELEASED>>
    /\ clock - stateStartTime = GATE_RELEASE_TIME

=============================================================================
